---- MODULE Spec2Model ----
(***************************************************************************)
(* A model of the race engine of src/course_selector.py:                   *)
(*   - the attempt workflow _single_attempt and the response handling of   *)
(*     get_predicate_response / get_add_drop_response,                     *)
(*   - the scheduling loop of AHUCourseSelector.rapid_select_course,       *)
(*   - the target loop of main and the sort of its targets,                *)
(*   - the sampling of sync_time_with_ntp.                                 *)
(* Times are whole seconds.  A text is modelled by the set of the markers  *)
(* it contains (substring tests are the only thing the code does with a    *)
(* text); the empty set is the empty string.                               *)
(***************************************************************************)
EXTENDS Integers, FiniteSets, Sequences, TLC

----------------------------------------------------------------------------
(* Bounds of the model *)

\* cap on the attempts launched in one run of main
MaxAttempts == 4
\* number of entries of lesson_targets
NumTargets == 3
\* how far ahead of the local clock the target instant lies when main starts
TargetTime == 10
\* the offset sync_time_with_ntp returns
SyncResult == 1

(* Inputs *)

\* the values of the `concurrency` argument of rapid_select_course
Concurrencies == {1, 2}
\* the value of cont at line 1414: what the operator typed, stripped and lowered
\* (line 1416 makes it 'n' when reading it fails)
Answers == {"y", "n", ""}

(* Program constants *)

\* max_duration, line 822
max_duration == 180
\* timedelta(seconds=5), line 830
LeadIn == 5
\* timedelta(seconds=1), line 828
LateShift == 1

----------------------------------------------------------------------------
(* Texts and server responses *)

\* '时间冲突' (line 885)
CONFLICT == "CONFLICT"
\* '相同教学班只能选一次' (line 191)
DUP_ZH == "DUP_ZH"
\* 'Duplicate lessons are not allowed' (line 191)
DUP_EN == "DUP_EN"
\* any other wording
PLAIN == "PLAIN"

Tokens == {CONFLICT, DUP_ZH, DUP_EN, PLAIN}

\* the literals '无结果' (line 866) and '无最终结果' (line 884): non-empty, no marker
NoResultText == {PLAIN}

\* Python's None for a response dict
None == [type |-> "none"]

\* an errorMessage: the key absent, the key present with null, a non-empty dict with
\* the text fields the code reads, or a non-empty string
NoMsg == [type |-> "none", text |-> {}, textZh |-> {}, textEn |-> {}]
NullMsg == [type |-> "null", text |-> {}, textZh |-> {}, textEn |-> {}]
Msg(t, zh, en) == [type |-> "dict", text |-> t, textZh |-> zh, textEn |-> en]
StrMsg(t) == [type |-> "str", text |-> t, textZh |-> {}, textEn |-> {}]

\* _is_duplicate_message, lines 186-191
_is_duplicate_message(message) ==
    IF message = {} THEN FALSE
    ELSE \E keyword \in {DUP_ZH, DUP_EN} : keyword \in message

\* Python's `a or b` on texts
OrText(a, b) == IF a # {} THEN a ELSE b

\* _extract_text_field, lines 193-200
_extract_text_field(obj) ==
    IF obj.type = "dict" THEN OrText(obj.text, OrText(obj.textZh, OrText(obj.textEn, {})))
    ELSE IF obj.type = "str" THEN obj.text
    ELSE {}

\* the result of one attempt: the pair (ok, msg) of _single_attempt; msg is kept
\* as the name of its template
Result(ok, kind) == [ok |-> ok, kind |-> kind]

\* a precheck result dict (predicate-response data)
Pred(success, errorMessage, result) ==
    [type |-> "dict", success |-> success, errorMessage |-> errorMessage, result |-> result]

\* a final result dict (add-drop-response data)
Final(success, errorMessage, duplicate) ==
    [type |-> "dict", success |-> success, errorMessage |-> errorMessage, duplicate |-> duplicate]

\* a value of the precheck `result` map: a dict with a text, or something else
DictVal(t) == [type |-> "dict", text |-> t]
OtherVal == [type |-> "other", text |-> {}]

\* the `result` field of a precheck: absent (None), a map given by the set of its
\* values, or a truthy value that is no map
NoMap == [type |-> "none", values |-> {}]
Map(vs) == [type |-> "map", values |-> vs]
NotAMap == [type |-> "notmap", values |-> {}]

----------------------------------------------------------------------------
(* One poll of the two result endpoints.  A reply is                       *)
(*   [kind |-> "raise"]           the request or its decoding raised,      *)
(*   [kind |-> "fail"]            data['result'] # 0,                      *)
(*   [kind |-> "empty"]           data['result'] = 0 and no data yet,      *)
(*   [kind |-> "data", data |-> d] data['result'] = 0 with the result d.   *)
(* The handling of a reply says what the polling loop does with it:        *)
(*   "return" (with value), "continue" (not ready) or "raise".             *)

Reply(kind, data) == [kind |-> kind, data |-> data]
Handled(does, value) == [does |-> does, value |-> value]

\* the body of the loop of get_predicate_response, lines 580-619
predicate_poll(reply) ==
    IF reply.kind = "raise" THEN Handled("raise", None)
    ELSE IF reply.kind = "fail" THEN Handled("return", None)
    ELSE IF reply.kind = "empty" THEN Handled("continue", None)
    ELSE LET result == reply.data IN
         IF result.success THEN Handled("return", result)
         \* line 595: result.get('errorMessage', {}).get('text', ...) raises on null or str
         ELSE IF result.errorMessage.type \in {"null", "str"} THEN Handled("raise", None)
         ELSE Handled("return", result)

\* the body of the loop of get_add_drop_response, lines 634-671
add_drop_poll(reply) ==
    IF reply.kind = "raise" THEN Handled("raise", None)
    ELSE IF reply.kind = "fail" THEN Handled("return", None)
    ELSE IF reply.kind = "empty" THEN Handled("continue", None)
    ELSE LET result == reply.data IN
         IF result.success THEN Handled("return", result)
         \* line 647: result['errorMessage'].get raises on a str
         ELSE IF result.errorMessage.type = "str" THEN Handled("raise", None)
         ELSE IF result.errorMessage.type = "dict" THEN
              IF _is_duplicate_message(result.errorMessage.text)
              THEN Handled("return", [result EXCEPT !.success = TRUE, !.duplicate = TRUE])
              ELSE Handled("return", result)
         ELSE Handled("continue", None)

----------------------------------------------------------------------------
(* _single_attempt, lines 858-891, as a function of what its four calls    *)
(* return: req_id and add_req_id are "id", "none" (a falsy id) or "raise"  *)
(* (the call raised), pred and final are the values returned by            *)
(* get_predicate_response and get_add_drop_response.                       *)

\* lines 865-869
pred_failed(pred) ==
    LET err == OrText(_extract_text_field(IF pred.type = "none" THEN StrMsg({})
                                          ELSE pred.errorMessage), NoResultText)
    IN IF _is_duplicate_message(err) THEN Result(TRUE, "DupPrecheck")
       ELSE Result(FALSE, "PrecheckFail")

\* a mutant of final_outcome: without the last return statement (line 889) a text that
\* is not recognised gives no result
final_outcome_no_default(final) ==
    IF final.type # "none" /\ final.success THEN Result(TRUE, "Success")
    ELSE LET err == OrText(_extract_text_field(IF final.type = "none" THEN StrMsg({})
                                               ELSE final.errorMessage), NoResultText)
         IN IF CONFLICT \in err THEN Result(FALSE, "Conflict")
            ELSE IF _is_duplicate_message(err) \/ (final.type # "none" /\ final.duplicate)
                 THEN Result(TRUE, "DupAddDrop")
            ELSE Result(FALSE, "")

\* lines 882-889
final_outcome(final) ==
    IF final.type # "none" /\ final.success THEN Result(TRUE, "Success")
    ELSE LET err == OrText(_extract_text_field(IF final.type = "none" THEN StrMsg({})
                                               ELSE final.errorMessage), NoResultText)
         IN IF CONFLICT \in err THEN Result(FALSE, "Conflict")
            ELSE IF _is_duplicate_message(err) \/ (final.type # "none" /\ final.duplicate)
                 THEN Result(TRUE, "DupAddDrop")
            ELSE Result(FALSE, "FinalFail")

\* lines 858-891
_single_attempt(req_id, pred, add_req_id, final) ==
    IF req_id = "raise" THEN Result(FALSE, "Exception")
    ELSE IF req_id = "none" THEN Result(FALSE, "NoRequestId")
    ELSE IF pred.type = "none" \/ ~pred.success THEN pred_failed(pred)
    \* line 873: pred_map.values() raises when result is no map
    ELSE IF pred.result.type = "notmap" THEN Result(FALSE, "Exception")
    ELSE IF \E v \in pred.result.values :
                v.type = "dict" /\ _is_duplicate_message(v.text)
         THEN Result(TRUE, "DupPrecheckResult")
    ELSE IF add_req_id = "raise" THEN Result(FALSE, "Exception")
    ELSE IF add_req_id = "none" THEN Result(FALSE, "NoAddRequestId")
    ELSE final_outcome(final)

\* a mutant of ReachesFinal: the attempt goes on whatever its calls returned
ReachesFinalAlways(req_id, pred, add_req_id) == TRUE

\* whether an attempt with these call results gets as far as the confirm poll
ReachesFinal(req_id, pred, add_req_id) ==
    /\ req_id = "id"
    /\ pred.type # "none" /\ pred.success
    /\ pred.result.type # "notmap"
    /\ ~ \E v \in pred.result.values : v.type = "dict" /\ _is_duplicate_message(v.text)
    /\ add_req_id = "id"

----------------------------------------------------------------------------
(* The inputs of a race: what the server answers to the calls of one       *)
(* attempt.  An input names what add_course_predicate returned, the reply  *)
(* that ended the precheck poll, what add_course_request returned and the  *)
(* reply that ended the confirm poll.                                      *)

Input(req_id, pred_reply, add_req_id, final_reply) ==
    [req_id |-> req_id, pred_reply |-> pred_reply, add_req_id |-> add_req_id,
     final_reply |-> final_reply]

PredPass == Reply("data", Pred(TRUE, NoMsg, NoMap))
PredHeld == Reply("data", Pred(FALSE, Msg({DUP_EN}, {}, {}), NoMap))
FinalPass == Reply("data", Final(TRUE, NoMsg, FALSE))
FinalConflict == Reply("data", Final(FALSE, Msg({CONFLICT}, {}, {}), FALSE))
FinalConflictHeld == Reply("data", Final(FALSE, Msg({CONFLICT, DUP_ZH}, {}, {}), FALSE))

RaceInputs ==
    {Input("none", Reply("fail", None), "none", Reply("fail", None)),
     Input("id", PredHeld, "none", Reply("fail", None)),
     Input("id", PredPass, "id", FinalPass),
     Input("id", PredPass, "id", FinalConflict),
     Input("id", PredPass, "id", FinalConflictHeld)}

\* the confirm poll was not reached
Unreached == [type |-> "unreached"]

\* what one attempt ends with on an input: its result, and the data of the reply that
\* ended its confirm poll if it got that far
AttemptOutcome(x) ==
    LET pred == predicate_poll(x.pred_reply).value
        final == add_drop_poll(x.final_reply).value
    IN [res |-> _single_attempt(x.req_id, pred, x.add_req_id, final),
        final |-> IF ReachesFinal(x.req_id, pred, x.add_req_id)
                  THEN x.final_reply.data ELSE Unreached]

AttemptOutcomes == {AttemptOutcome(x) : x \in RaceInputs}

\* the outcome tag of a result
Outcome(res) ==
    IF res.kind = "Success" THEN "Success"
    ELSE IF res.kind \in {"DupPrecheck", "DupPrecheckResult", "DupAddDrop"} THEN "AlreadyHeld"
    ELSE IF res.kind = "Conflict" THEN "Conflict"
    ELSE "Transient"

\* a call of _single_attempt that has not made its first request: `at` is the stage
\* it is at, `polls` the turns of the polling loop of that stage it has made, `sent`
\* the calls of the client it has made so far in their order, `raised` whether its
\* last step ran into an exception, `turn` how the latest turn of a polling loop ended
\* ("return", "continue" or "raise"), and the other fields are its locals and its
\* return value; `turn_info` counts its requests of get_turn_info, `intent_id` and
\* `confirm_id` are the request ids the server gave it, `intent_payload` and
\* `confirm_payload` the bodies of its two posts, `pred_url` and `final_url` the
\* request ids in the addresses of its polls
FreshCall ==
    [at |-> "submit", polls |-> 0, sent |-> <<>>, raised |-> FALSE, turn |-> "none",
     req_id |-> "unset",
     pred |-> Unreached, add_req_id |-> "unset", final |-> Unreached,
     final_data |-> Unreached, turn_info |-> 0,
     intent_id |-> "unset", confirm_id |-> "unset",
     intent_payload |-> Unreached, confirm_payload |-> Unreached,
     pred_url |-> "unset", final_url |-> "unset",
     res |-> Result(FALSE, "")]

\* a call of sync_time_with_ntp before its first sample: `samples` is what the
\* requests made so far brought (ok, and then the server's tx_time and the local
\* time.time() read after it), `offsets` the list of line 790, `result` the value
\* returned
FreshSync ==
    [at |-> "sampling", samples |-> <<>>, offsets |-> <<>>, log |-> <<>>, result |-> "unset"]

----------------------------------------------------------------------------
(* The session: the fields turn_id and semester_id of the client, which    *)
(* every request of a race reads.  A value is "id" (truthy) or "none"      *)
(* (None, 0, an empty string).  student_id and the token are set when the  *)
(* credentials are loaded (_update_auth, lines 202-210), before main       *)
(* reaches its loop, and nothing of lines 1371-1432 assigns them.          *)

Session(turn_id, semester_id) == [turn_id |-> turn_id, semester_id |-> semester_id]

\* the session main has once verify_credentials (lines 1010-1021) accepted a reply
\* with a turn id
Verified == Session("id", "id")

\* the sessions main can have once verify_credentials accepted a reply: line 1021
\* tests the value get_turn_info returned, not the turn id in it
Sessions == {Session("id", "id"), Session("none", "id")}

\* the replies to the request of get_turn_info: none that line 307 accepts, or one
\* with data, whose turn id may be falsy
TurnFail == [kind |-> "fail"]
Turn(turn_id, semester_id) ==
    [kind |-> "data", turn_id |-> turn_id, semester_id |-> semester_id]
TurnReplies == {TurnFail, Turn("id", "id"), Turn("none", "id")}

\* what a call leaves: the value it returns and the session
Got(value, s) == [value |-> value, session |-> s]

\* get_turn_info, lines 289-322: the request of line 303 is made with no timeout;
\* lines 309-310 assign turn_id and semester_id
get_turn_info(s, reply) ==
    IF reply.kind = "fail" THEN Got("none", s)
    ELSE Got("data", Session(reply.turn_id, reply.semester_id))

\* lines 493 and 529: add_course_predicate and add_course_request call
\* get_turn_info first when the client has no turn id
NeedsTurnInfo(s) == s.turn_id = "none"

\* whether a request of the client is made with a timeout argument: the posts of
\* add_course_predicate and add_course_request (line 227) and the gets of the two
\* polls (lines 581 and 635) are, the get of get_turn_info (line 303) is not
HasTimeout(what) == what # "turn_info"

\* lines 493-495 and 529-531
EnsureTurn(s, reply) == IF NeedsTurnInfo(s) THEN get_turn_info(s, reply) ELSE Got("data", s)

\* the sessions an attempt with input x can leave when it starts with session s: a
\* get_turn_info that fails makes the call that asked return None
AttemptSessions(s, x) ==
    LET first == {g \in {EnsureTurn(s, r) : r \in TurnReplies} :
                     g.value = "none" => x.req_id = "none"}
        confirms == ReachesFinal(x.req_id, predicate_poll(x.pred_reply).value, "id")
        second(t) == {g \in {EnsureTurn(t, r) : r \in TurnReplies} :
                         g.value = "none" => x.add_req_id = "none"}
    IN UNION {IF g.value = "data" /\ confirms
              THEN {h.session : h \in second(g.session)}
              ELSE {g.session} : g \in first}

----------------------------------------------------------------------------
(* force_send_requests, lines 697-761: the workflow run up to `attempts`   *)
(* times on the main thread, before the race.                              *)

MaxPasses == 3

\* line 749: the text used when the result has neither errorMessage nor message
NoDetailText == {PLAIN}

\* what one pass of the loop does with the values its four calls return (lines
\* 714-757): "return" (return True), "continue" (the next pass, or the end of the
\* loop) or "raise" (an exception leaves the function, which has no handler)
force_pass(request_id, result, add_request_id, final) ==
    IF request_id = "none" THEN "continue"
    ELSE IF result.type = "none" THEN "continue"
    ELSE IF result.success THEN
         \* line 724: pred_map.values() raises when result is no map
         IF result.result.type = "notmap" THEN "raise"
         ELSE IF \E v \in result.result.values :
                     v.type = "dict" /\ _is_duplicate_message(v.text)
              THEN "return"
         ELSE IF add_request_id = "none" THEN "continue"
         ELSE IF final.type # "none" /\ final.success THEN "return"
         \* line 740: (final or {}).get('errorMessage', {}).get('text', '')
         ELSE IF final.type # "none" /\ final.errorMessage.type \in {"null", "str"}
              THEN "raise"
         ELSE IF \/ _is_duplicate_message(IF final.type = "none" THEN {}
                                           ELSE final.errorMessage.text)
                 \/ (final.type # "none" /\ final.duplicate)
              THEN "return"
         ELSE "continue"
    ELSE LET msg == result.errorMessage IN
         \* lines 749-750: the string itself, or the 'text' of the dict
         IF _is_duplicate_message(IF msg.type \in {"dict", "str"} THEN msg.text
                                  ELSE NoDetailText)
         THEN "return"
         ELSE "continue"

\* replies whose already-held marker is in the textZh field only
PredHeldZh == Reply("data", Pred(FALSE, Msg({}, {DUP_ZH}, {}), NoMap))
FinalHeldZh == Reply("data", Final(FALSE, Msg({}, {DUP_ZH}, {}), FALSE))

\* replies with a result map: one that tells the class is held, and one that is no map
PredPassHeld == Reply("data", Pred(TRUE, NoMsg, Map({DictVal({DUP_ZH})})))
PredPassNotAMap == Reply("data", Pred(TRUE, NoMsg, NotAMap))

\* what the server answers to the calls of one pass
ForceInputs ==
    RaceInputs \cup
    {Input("id", Reply("fail", None), "none", Reply("fail", None)),
     Input("id", PredPass, "none", Reply("fail", None)),
     Input("id", PredPass, "id", Reply("fail", None)),
     Input("id", PredPassHeld, "none", Reply("fail", None)),
     Input("id", PredPassNotAMap, "none", Reply("fail", None)),
     Input("id", PredHeldZh, "none", Reply("fail", None)),
     Input("id", PredPass, "id", FinalHeldZh)}

\* a call with the argument attempts = n before its first pass: `at` is "loop" (at
\* the head of the for loop), "pass" (in its body) or "done", `i` the loop variable,
\* `ret` what the call ended with ("True", "False", "raise"), and `ended` the passes
\* that have ended, each with the outcome of its workflow and what the loop did
FreshForce(n) ==
    [at |-> "loop", attempts |-> n, i |-> 0, ret |-> "none", ended |-> <<>>]

\* main did not ask for force_send_requests (line 1338)
NotForced == [at |-> "done", attempts |-> 0, i |-> 0, ret |-> "none", ended |-> <<>>]

----------------------------------------------------------------------------
(* State.  Times are kept relative to the corrected clock                  *)
(* now = time.time() + time_offset: the model holds target_time - now,     *)
(* start_time - now and deadline - now, and the passing of d seconds       *)
(* lowers each of them by d.  The code only tests now > target_time,       *)
(* now >= start_time and now > deadline, so a distance is not followed     *)
(* below -1.                                                               *)
(* The locals last_error and status_line (lines 895-905) are only printed  *)
(* and are left out.                                                       *)

VARIABLES
    pc,              \* where the main thread is
    to_target,       \* target_time - now
    time_offset,     \* main's time_offset (line 1372)
    i,               \* index of the target of the for loop of main (line 1401)
    success_any,     \* line 1398
    report,          \* how main ended
    cont,            \* line 1414: the operator's answer, "none" before any
    concurrency,     \* the concurrency argument of rapid_select_course
    to_start,        \* start_time - now (lines 826-830)
    to_deadline,     \* deadline - now (line 831)
    attempt_counter, \* line 893
    success,         \* line 894
    futures,         \* line 908: the attempts of the set `futures`
    done,            \* line 924
    won_at,          \* history: when line 930 set success, "intime" (now <= deadline) or "late"
    exit,            \* how rapid_select_course left its loop: "win", "timeout", "interrupt"
    att,             \* the futures of the executor, by attempt number
    launched,        \* how many attempts the run has launched so far
    lesson_targets,  \* main's list lesson_targets (lines 1306-1325)
    call,            \* one call of _single_attempt followed stage by stage
    ntp,             \* one call of sync_time_with_ntp followed sample by sample
    session,         \* the client's turn_id and semester_id (lines 156-157)
    force            \* one call of force_send_requests followed pass by pass

vars == <<pc, to_target, time_offset, i, success_any, report, cont, concurrency,
          to_start, to_deadline, attempt_counter, success, futures, done, won_at, exit,
          att, launched, lesson_targets, call, ntp, session, force>>

\* what the race engine is given and never writes
givenVars == <<concurrency, lesson_targets, call, ntp, force>>

mainVars == <<i, success_any, report, cont>>
clockVars == <<to_target, to_start, to_deadline>>
loopVars == <<attempt_counter, success, futures, done, won_at>>

\* the state of main, of the scheduler and of its executor
engineVars == <<pc, clockVars, time_offset, mainVars, concurrency, lesson_targets,
                loopVars, exit, att, launched>>

Attempts == 1..MaxAttempts

Idle == [st |-> "idle", res |-> Result(FALSE, ""), final |-> Unreached]

Max(a, b) == IF a >= b THEN a ELSE b

\* attempts submitted and not yet completed
InFlight == {a \in Attempts : att[a].st \in {"pending", "running"}}

\* an entry of lesson_targets: `name` stands for the entry (its position in the list as
\* lines 1280-1317 built it), `priority` is its rank
Target(name, priority) == [name |-> name, priority |-> priority]

\* the ranks of the configured targets
Priorities == {1, 2}

\* the lists lines 1280-1317 can build: any ranks, in any order
TargetLists ==
    {[k \in 1..NumTargets |-> Target(k, f[k])] : f \in [1..NumTargets -> Priorities]}

\* the list of a configuration without ranks: line 124 gives entry idx the rank idx + 1
DefaultTargets == [k \in 1..NumTargets |-> Target(k, k)]

\* the state when main reaches line 1325, but for concurrency and lesson_targets
Boot ==
    /\ pc = "sort"
    /\ to_target = TargetTime
    /\ time_offset = 0
    /\ i = 0
    /\ success_any = FALSE
    /\ report = "none"
    /\ cont = "none"
    /\ to_start = -1
    /\ to_deadline = -1
    /\ attempt_counter = 0
    /\ success = FALSE
    /\ futures = {}
    /\ done = {}
    /\ won_at = "none"
    /\ exit = "none"
    /\ att = [a \in Attempts |-> Idle]
    /\ launched = 0

Init ==
    /\ Boot
    /\ concurrency \in Concurrencies
    /\ lesson_targets = DefaultTargets
    /\ call = FreshCall
    /\ ntp = FreshSync
    /\ force = NotForced
    /\ session = Verified

\* a run of main on any list of targets, with one attempt at a time
InitTargets ==
    /\ Boot
    /\ concurrency = 1
    /\ lesson_targets \in TargetLists
    /\ call = FreshCall
    /\ ntp = FreshSync
    /\ force = NotForced
    /\ session = Verified

----------------------------------------------------------------------------
(* The clock advances to the next instant at which one of the comparisons  *)
(* of the code changes its value, or to the second after it.               *)

Steps ==
    {d \in (IF pc = "loop" THEN {to_target + 1}
            ELSE IF pc = "prewait" THEN {to_start}
            ELSE IF pc \in {"check", "refill", "wait", "collect", "decide"}
            THEN {to_deadline, to_deadline + 1}
            ELSE {}) : d > 0}

Tick ==
    /\ \E d \in Steps :
        /\ to_target' = Max(to_target - d, -1)
        /\ to_start' = Max(to_start - d, -1)
        /\ to_deadline' = Max(to_deadline - d, -1)
    /\ UNCHANGED <<pc, time_offset, mainVars, givenVars, session, loopVars, exit, att,
                   launched>>

----------------------------------------------------------------------------
(* main, lines 1371-1432 *)

\* the frame of rapid_select_course is left: its locals are no more
FrameGone ==
    /\ to_start' = -1
    /\ to_deadline' = -1
    /\ attempt_counter' = 0
    /\ success' = FALSE
    /\ futures' = {}
    /\ done' = {}
    /\ won_at' = "none"
    /\ exit' = "none"

\* list.sort puts x behind the entries of the sorted list s whose key is not greater
PlaceLast(s, x) ==
    LET n == Cardinality({k \in 1..Len(s) : s[k].priority <= x.priority})
    IN SubSeq(s, 1, n) \o <<x>> \o SubSeq(s, n + 1, Len(s))

\* a mutant of SortByPriority: an entry goes before the entries of its own rank
RECURSIVE SortUnstable(_)
SortUnstable(s) ==
    IF s = <<>> THEN <<>>
    ELSE LET x == s[Len(s)]
             r == SortUnstable(SubSeq(s, 1, Len(s) - 1))
             n == Cardinality({k \in 1..Len(r) : r[k].priority < x.priority})
         IN SubSeq(r, 1, n) \o <<x>> \o SubSeq(r, n + 1, Len(r))

\* s.sort(key=lambda x: x["priority"]), line 1325: ascending and stable
RECURSIVE SortByPriority(_)
SortByPriority(s) ==
    IF s = <<>> THEN <<>>
    ELSE PlaceLast(SortByPriority(SubSeq(s, 1, Len(s) - 1)), s[Len(s)])

\* line 1325
SortTargets ==
    /\ pc = "sort"
    /\ lesson_targets' = SortByPriority(lesson_targets)
    /\ pc' = "sync"
    /\ UNCHANGED <<clockVars, time_offset, mainVars, concurrency, call, ntp, session, force,
                   loopVars, exit, att, launched>>

\* a mutant of SyncTime: the value sync_time_with_ntp returned is dropped
SyncTimeDropped ==
    /\ pc = "sync"
    /\ time_offset' = time_offset
    /\ to_target' = to_target
    /\ pc' = "loop"
    /\ UNCHANGED <<mainVars, givenVars, session, to_start, to_deadline, loopVars, exit,
                   att, launched>>

\* line 1372: time_offset = client.sync_time_with_ntp(); from here on the corrected
\* clock is the local clock plus the offset
SyncTime ==
    /\ pc = "sync"
    /\ time_offset' = SyncResult
    /\ to_target' = Max(to_target - SyncResult, -1)
    /\ pc' = "loop"
    /\ UNCHANGED <<mainVars, givenVars, session, to_start, to_deadline, loopVars, exit, att,
                   launched>>

\* a mutant of StartTime: no lead-in, the requests start at the target instant
StartTimeAtTarget(now_dt, target_time) ==
    IF now_dt > target_time THEN now_dt - LateShift ELSE target_time

\* lines 826-830
StartTime(now_dt, target_time) ==
    IF now_dt > target_time THEN now_dt - LateShift ELSE target_time - LeadIn

\* a mutant of Deadline: the duration of the window is taken off
DeadlineShort(now_dt, target_time) == Max(target_time, now_dt) - max_duration

\* line 831
Deadline(now_dt, target_time) == Max(target_time, now_dt) + max_duration

\* line 1401 taking the next target and line 1408 calling rapid_select_course, whose
\* lines 822-831 derive the window (with now_dt as the origin of the times) and whose
\* lines 893-908 set the locals of the loop
NextTarget ==
    /\ pc = "loop"
    /\ i < NumTargets
    /\ i' = i + 1
    /\ to_start' = StartTime(0, to_target)
    /\ to_deadline' = Deadline(0, to_target)
    /\ attempt_counter' = 0
    /\ success' = FALSE
    /\ futures' = {}
    /\ done' = {}
    /\ won_at' = "none"
    /\ exit' = "none"
    /\ att' = [a \in Attempts |-> Idle]
    /\ pc' = "prewait"
    /\ UNCHANGED <<to_target, time_offset, success_any, report, cont, givenVars, session,
                   launched>>

\* a mutant of LoopExhausted: the flag success_any is not looked at
LoopExhaustedAllFailed ==
    /\ pc = "loop"
    /\ i = NumTargets
    /\ report' = "allfailed"
    /\ pc' = "end"
    /\ UNCHANGED <<clockVars, time_offset, i, success_any, cont, givenVars, session, loopVars,
                   exit, att, launched>>

\* lines 1425-1429: the for loop is exhausted
LoopExhausted ==
    /\ pc = "loop"
    /\ i = NumTargets
    /\ report' = IF success_any THEN "some" ELSE "allfailed"
    /\ pc' = "end"
    /\ UNCHANGED <<clockVars, time_offset, i, success_any, cont, givenVars, session, loopVars,
                   exit, att, launched>>

\* a mutant of Ask: the answer is not looked at and the loop goes on
AskGoesOn ==
    /\ pc = "ask"
    /\ \E answer \in Answers : cont' = answer
    /\ pc' = "loop"
    /\ UNCHANGED <<clockVars, time_offset, i, success_any, report, givenVars, session, loopVars,
                   exit, att, launched>>

\* lines 1410-1419: the race returned True; the operator is asked whether to go on
Ask ==
    /\ pc = "ask"
    /\ \E answer \in Answers :
        /\ cont' = answer
        /\ IF cont' # "y"
           THEN pc' = "end" /\ report' = "returned"
           ELSE pc' = "loop" /\ report' = report
    /\ UNCHANGED <<clockVars, time_offset, i, success_any, givenVars, session, loopVars, exit,
                   att, launched>>

\* lines 1420-1423: the race returned False; get_turn_info() refreshes the session
Refresh ==
    /\ pc = "refresh"
    /\ pc' = "loop"
    /\ \E reply \in TurnReplies : session' = get_turn_info(session, reply).session
    /\ UNCHANGED <<clockVars, time_offset, mainVars, givenVars, loopVars, exit, att,
                   launched>>

\* lines 1430-1432: a KeyboardInterrupt that reaches main's handler: one raised in
\* main's loop, in the wait before the start (lines 838-852, outside the try of line
\* 910) or while the executor is shut down on leaving the with block of line 907
MainInterrupt ==
    /\ pc \in {"loop", "prewait", "shutdown", "ask", "refresh"}
    /\ report' = "interrupted"
    /\ pc' = "end"
    /\ FrameGone
    /\ UNCHANGED <<to_target, time_offset, i, success_any, cont, givenVars, session, att,
                   launched>>

----------------------------------------------------------------------------
(* rapid_select_course, lines 836-948 *)

\* line 842: current_dt >= start_time
Started == to_start <= 0

\* lines 838-843: the wait for start_time ends; start_time is not read again
PreWait ==
    /\ pc = "prewait"
    /\ Started
    /\ pc' = "check"
    /\ to_start' = -1
    /\ UNCHANGED <<to_target, to_deadline, time_offset, mainVars, givenVars, session, loopVars,
                   exit, att, launched>>

\* a return statement of the loop (lines 917, 942, 948) is reached: the executor is
\* shut down next; the locals that nothing reads any more are dropped
LeaveLoop(how) ==
    /\ exit' = how
    /\ pc' = "shutdown"
    /\ attempt_counter' = attempt_counter
    /\ success' = success
    /\ futures' = {}
    /\ done' = {}
    /\ won_at' = won_at

\* a mutant of PastDeadline: the deadline is never seen as passed
NeverPastDeadline == FALSE

\* line 913: current_dt > deadline
PastDeadline == to_deadline < 0

\* lines 912-917
Check ==
    /\ pc = "check"
    /\ IF PastDeadline
       THEN LeaveLoop("timeout")
       ELSE /\ pc' = "refill"
            /\ UNCHANGED <<attempt_counter, success, futures, done, won_at, exit>>
    /\ UNCHANGED <<clockVars, time_offset, mainVars, givenVars, session, att, launched>>

\* a mutant of HasFreeSlot: one slot too many
HasFreeSlotOffByOne == Cardinality(futures) <= concurrency

\* a mutant of HasFreeSlot: the pool is never refilled beyond one attempt
HasFreeSlotSingle == Cardinality(futures) < 1

\* line 920
HasFreeSlot == Cardinality(futures) < concurrency

\* Submit with line 921 left out: the counter stays and the number is used again
SubmitSameNumber ==
    /\ pc = "refill"
    /\ HasFreeSlot
    /\ launched < MaxAttempts
    /\ launched' = launched + 1
    /\ attempt_counter' = attempt_counter
    /\ futures' = futures \cup {attempt_counter + 1}
    /\ att' = [att EXCEPT ![attempt_counter + 1].st = "pending"]
    /\ UNCHANGED <<pc, clockVars, time_offset, mainVars, givenVars, session, success, done,
                   won_at, exit>>

\* lines 920-922, one turn of the inner loop
Submit ==
    /\ pc = "refill"
    /\ HasFreeSlot
    /\ launched < MaxAttempts
    /\ launched' = launched + 1
    /\ attempt_counter' = attempt_counter + 1
    /\ futures' = futures \cup {attempt_counter + 1}
    /\ att' = [att EXCEPT ![attempt_counter + 1].st = "pending"]
    /\ UNCHANGED <<pc, clockVars, time_offset, mainVars, givenVars, session, success, done,
                   won_at, exit>>

\* line 920, the inner loop ends
Refilled ==
    /\ pc = "refill"
    /\ ~HasFreeSlot
    /\ pc' = "wait"
    /\ UNCHANGED <<clockVars, time_offset, mainVars, givenVars, session, loopVars, exit, att,
                   launched>>

\* line 924: wait() returns the futures that are done, at once if there is one and
\* after the timeout otherwise
Wait ==
    /\ pc = "wait"
    /\ done' = {f \in futures : att[f].st \in {"finished", "cancelled"}}
    /\ futures' = futures \ done'
    /\ pc' = "collect"
    /\ UNCHANGED <<clockVars, time_offset, mainVars, givenVars, session, attempt_counter,
                   success, won_at, exit, att, launched>>

\* a future whose result has been read: what is kept of it is the ok flag and the
\* outcome tag of its message
Collected(a) ==
    [st |-> "collected", res |-> Result(att[a].res.ok, Outcome(att[a].res)),
     final |-> Unreached]

\* a mutant of IsOk: only a formal success counts
IsOkSuccessOnly(res) == res.kind = "Success"

\* a mutant of IsOk: every result counts
IsOkAlways(res) == TRUE

\* line 928: ok of `ok, msg = fut.result()`
IsOk(res) == res.ok

\* lines 925-934: the for loop over done, in any order; it stops at the first ok
Collect ==
    /\ pc = "collect"
    /\ \/ /\ done = {}
          /\ UNCHANGED <<success, won_at, att>>
       \/ /\ done # {}
          /\ \A f \in done : ~IsOk(att[f].res)
          /\ UNCHANGED <<success, won_at>>
          /\ att' = [a \in Attempts |-> IF a \in done THEN Collected(a) ELSE att[a]]
       \/ \E w \in done :
            /\ IsOk(att[w].res)
            /\ \E before \in SUBSET {f \in done \ {w} : ~IsOk(att[f].res)} :
                att' = [a \in Attempts |->
                          IF a \in before \cup {w} THEN Collected(a) ELSE att[a]]
            /\ success' = TRUE
            /\ won_at' = IF to_deadline >= 0 THEN "intime" ELSE "late"
    /\ done' = {}
    /\ pc' = "decide"
    /\ UNCHANGED <<clockVars, time_offset, mainVars, givenVars, session, attempt_counter,
                   futures, exit, launched>>

\* a mutant of Cancel: no future is cancelled
CancelNothing(fs) == att

\* f.cancel() for f in futures: only a future that has not started is cancelled
Cancel(fs) ==
    [a \in Attempts |->
        IF a \in fs /\ att[a].st = "pending" THEN [att[a] EXCEPT !.st = "cancelled"]
        ELSE att[a]]

\* a mutant of Decide: the success flag is not acted upon
DecideGoesOn ==
    /\ pc = "decide"
    /\ pc' = "check"
    /\ UNCHANGED <<attempt_counter, success, futures, done, won_at, exit, att>>
    /\ UNCHANGED <<clockVars, time_offset, mainVars, givenVars, session, launched>>

\* lines 936-942
Decide ==
    /\ pc = "decide"
    /\ IF success
       THEN /\ att' = Cancel(futures)
            /\ LeaveLoop("win")
       ELSE /\ att' = att
            /\ pc' = "check"
            /\ UNCHANGED <<attempt_counter, success, futures, done, won_at, exit>>
    /\ UNCHANGED <<clockVars, time_offset, mainVars, givenVars, session, launched>>

\* lines 943-948: a KeyboardInterrupt inside the try of line 910
Interrupt ==
    /\ pc \in {"check", "refill", "wait", "collect", "decide"}
    /\ att' = Cancel(futures)
    /\ LeaveLoop("interrupt")
    /\ UNCHANGED <<clockVars, time_offset, mainVars, givenVars, session, launched>>

\* a mutant of ReturnValue: a result that arrives after the loop was left counts
ReturnValueLate ==
    \/ exit = "win"
    \/ \E a \in Attempts : att[a].st = "finished" /\ IsOk(att[a].res)

\* the return value of rapid_select_course (lines 917, 942, 948)
ReturnValue == exit = "win"

\* a mutant of Return: the with block is left without waiting for the workers
ReturnAtOnce ==
    /\ pc = "shutdown"
    /\ pc' = IF ReturnValue THEN "ask" ELSE "refresh"
    /\ success_any' = (success_any \/ ReturnValue)
    /\ FrameGone
    /\ att' = [a \in Attempts |-> Idle]
    /\ UNCHANGED <<to_target, time_offset, i, report, cont, givenVars, session, launched>>

\* leaving the with block of line 907: executor.shutdown(wait=True) returns when no
\* work is left, and the call returns to line 1408 of main
Return ==
    /\ pc = "shutdown"
    /\ InFlight = {}
    /\ pc' = IF ReturnValue THEN "ask" ELSE "refresh"
    /\ success_any' = (success_any \/ ReturnValue)
    /\ FrameGone
    /\ att' = [a \in Attempts |-> Idle]
    /\ UNCHANGED <<to_target, time_offset, i, report, cont, givenVars, session, launched>>

----------------------------------------------------------------------------
(* The worker threads of the executor *)

\* a worker takes the work item of attempt a
Start(a) ==
    /\ att[a].st = "pending"
    /\ att' = [att EXCEPT ![a].st = "running"]
    /\ UNCHANGED <<pc, clockVars, time_offset, mainVars, givenVars, session, loopVars, exit,
                   launched>>

\* _single_attempt(a) returns, lines 858-891
Finish(a) ==
    /\ att[a].st = "running"
    /\ \E x \in RaceInputs :
        LET o == AttemptOutcome(x)
        IN /\ att' = [att EXCEPT ![a] = [st |-> "finished", res |-> o.res,
                                         final |-> o.final]]
           /\ session' \in AttemptSessions(session, x)
    /\ UNCHANGED <<pc, clockVars, time_offset, mainVars, givenVars, loopVars, exit,
                   launched>>

----------------------------------------------------------------------------

Next ==
    \/ Tick
    \/ SortTargets
    \/ SyncTime
    \/ NextTarget
    \/ LoopExhausted
    \/ Ask
    \/ Refresh
    \/ MainInterrupt
    \/ PreWait
    \/ Check
    \/ Submit
    \/ Refilled
    \/ Wait
    \/ Collect
    \/ Decide
    \/ Interrupt
    \/ Return
    \/ \E a \in Attempts : Start(a)
    \/ \E a \in Attempts : Finish(a)

Spec == Init /\ [][Next]_vars

\* main on every list of targets
SpecTargets == InitTargets /\ [][Next]_vars

\* main started at any instant from TargetTime before the target instant to the
\* target instant itself (on the local clock), with one worker
InitWindow ==
    /\ pc = "sort"
    /\ to_target \in 0..TargetTime
    /\ time_offset = 0
    /\ i = 0
    /\ success_any = FALSE
    /\ report = "none"
    /\ cont = "none"
    /\ to_start = -1
    /\ to_deadline = -1
    /\ attempt_counter = 0
    /\ success = FALSE
    /\ futures = {}
    /\ done = {}
    /\ won_at = "none"
    /\ exit = "none"
    /\ att = [a \in Attempts |-> Idle]
    /\ launched = 0
    /\ concurrency = 1
    /\ lesson_targets = DefaultTargets
    /\ call = FreshCall
    /\ ntp = FreshSync
    /\ force = NotForced
    /\ session = Verified

SpecWindow == InitWindow /\ [][Next]_vars

\* main started at the opening, at the first instant of the lead-in, or before it
InitLive ==
    /\ InitWindow
    /\ to_target \in {0, LeadIn, TargetTime}

\* the steps of the main thread inside rapid_select_course and of the workers
Progress ==
    \/ PreWait
    \/ Check
    \/ Submit
    \/ Refilled
    \/ Wait
    \/ Collect
    \/ Decide
    \/ Return
    \/ \E a \in Attempts : Start(a)
    \/ \E a \in Attempts : Finish(a)

\* main with a clock that advances, a main thread that is scheduled, and workers
\* whose requests return or time out: a step of the clock that stays possible is
\* taken, and so is a step of the race when one stays possible
SpecLive ==
    /\ InitLive
    /\ [][Next]_vars
    /\ WF_vars(Tick)
    /\ WF_vars(Progress)

----------------------------------------------------------------------------
(* One call of _single_attempt, lines 858-891, followed from one call of   *)
(* the client to the next.  The server's answers are the inputs.           *)

\* max_retries of the precheck poll, line 864
max_retries_predicate == 8
\* max_retries of the confirm poll, line 881
max_retries_add_drop == 10

\* the texts of the answers
Texts == {{}, {PLAIN}, {CONFLICT}, {DUP_ZH}, {DUP_EN}, {CONFLICT, DUP_ZH}}

\* the errorMessage values of the answers
Messages ==
    {NoMsg, NullMsg}
    \cup {StrMsg(t) : t \in Texts \ {{}}}
    \cup {Msg(t, other[1], other[2]) :
             t \in Texts,
             other \in {<<{}, {}>>, <<{}, {DUP_EN}>>, <<{CONFLICT, DUP_ZH}, {}>>}}

\* the `result` values of the precheck answers
Maps ==
    {NoMap, NotAMap, Map({}), Map({OtherVal}), Map({DictVal({PLAIN})}),
     Map({DictVal({CONFLICT})}), Map({DictVal({DUP_ZH})}),
     Map({OtherVal, DictVal({DUP_EN})})}

\* what add_course_predicate (lines 491-525) and add_course_request (lines 527-560)
\* give: an id, None, or an exception (int(self.student_id) is outside their try)
Ids == {"id", "none", "raise"}

\* the replies to one poll of predicate-response
PredReplies ==
    {Reply("raise", None), Reply("fail", None), Reply("empty", None)}
    \cup {Reply("data", Pred(ok, m, r)) : ok \in BOOLEAN, m \in Messages, r \in Maps}

\* the replies to one poll of add-drop-response
FinalReplies ==
    {Reply("raise", None), Reply("fail", None), Reply("empty", None)}
    \cup {Reply("data", Final(ok, m, d)) : ok \in BOOLEAN, m \in Messages, d \in BOOLEAN}

\* the call c makes one more call of the client; the turns of one polling loop are
\* kept as one entry
Sends(c, what) ==
    IF c.sent # <<>> /\ c.sent[Len(c.sent)] = what THEN c
    ELSE [c EXCEPT !.sent = Append(@, what)]

\* a return statement of _single_attempt is reached with the locals of c
Returns(c) ==
    [c EXCEPT !.at = "done", !.polls = 0,
              !.res = _single_attempt(c.req_id, c.pred, c.add_req_id, c.final)]

\* the request ids the server gives: data['data'] of the reply to add-predicate
\* (line 513) and of the reply to add-request (line 549)
IntentId == "predicate-id"
ConfirmId == "request-id"

\* lesson_id of the race under way (line 1403), the first target's before any race
lesson_id == lesson_targets[Max(i, 1)].name

\* the body of the post of add_course_predicate, lines 498-508, with virtual_cost=0
\* (line 860)
predicate_payload(s, lesson) ==
    [studentAssoc |-> "student_id", courseSelectTurnAssoc |-> s.turn_id,
     lessonAssoc |-> lesson, virtualCost |-> "0", coursePackAssoc |-> "null"]

\* a mutant of request_payload: the confirm request names another lesson
request_payload_other(s, lesson) ==
    [studentAssoc |-> "student_id", courseSelectTurnAssoc |-> s.turn_id,
     lessonAssoc |-> lesson + 1, virtualCost |-> "null", coursePackAssoc |-> "null"]

\* the body of the post of add_course_request, lines 534-544, with virtual_cost=None
\* (line 877)
request_payload(s, lesson) ==
    [studentAssoc |-> "student_id", courseSelectTurnAssoc |-> s.turn_id,
     lessonAssoc |-> lesson, virtualCost |-> "null", coursePackAssoc |-> "null"]

\* whether the post of add_course_predicate / add_course_request is made when the
\* call gives r after get_turn_info gave got: not when get_turn_info failed, nor
\* when int(self.student_id) raised
Posts(got, r) == got.value = "data" /\ r # "raise"

\* lines 860-862: add_course_predicate is called
SubmitIntent ==
    /\ call.at = "submit"
    /\ \E reply \in TurnReplies, given \in Ids :
         LET got == EnsureTurn(session, reply)
             r == IF got.value = "none" THEN "none" ELSE given
             c == [Sends(call, "intent") EXCEPT
                     !.req_id = r, !.raised = (r = "raise"),
                     !.turn_info = @ + (IF NeedsTurnInfo(session) THEN 1 ELSE 0),
                     !.intent_id = IF r = "id" THEN IntentId ELSE @,
                     !.intent_payload = IF Posts(got, r)
                                        THEN predicate_payload(got.session, lesson_id)
                                        ELSE @]
         IN /\ session' = got.session
            /\ call' = IF r = "id" THEN [c EXCEPT !.at = "poll_pred"] ELSE Returns(c)
    /\ UNCHANGED <<engineVars, ntp, force>>

\* lines 865-875 with the value pred of get_predicate_response: the attempt returns,
\* raises at line 873 (caught at line 890), or goes on to add_course_request
AfterPredicate(c, pred) ==
    LET d == [c EXCEPT !.pred = pred]
    IN IF ReachesFinal(d.req_id, pred, "id")
       THEN [d EXCEPT !.at = "confirm", !.polls = 0]
       ELSE Returns([d EXCEPT !.raised =
                        @ \/ (pred.type = "dict" /\ pred.success
                                 /\ pred.result.type = "notmap")])

\* a mutant of PollIntent: an exception ends the polling at once (the handler of
\* lines 613-619 without its retry)
PollIntentNoRetry ==
    /\ call.at = "poll_pred"
    /\ \E reply \in PredReplies :
         LET h == predicate_poll(reply)
             c == [Sends(call, "intent_poll") EXCEPT !.raised = (h.does = "raise"),
                                                       !.turn = h.does,
                                                       !.pred_url = call.intent_id]
         IN call' = IF h.does = "return" THEN AfterPredicate(c, h.value)
                    ELSE IF h.does = "continue" /\ call.polls + 1 < max_retries_predicate
                    THEN [c EXCEPT !.polls = @ + 1]
                    ELSE AfterPredicate(c, None)
    /\ UNCHANGED <<engineVars, ntp, session, force>>

\* one turn of the loop of get_predicate_response (lines 579-619) and, when the loop
\* is left, lines 865-875
PollIntent ==
    /\ call.at = "poll_pred"
    /\ \E reply \in PredReplies :
         LET h == predicate_poll(reply)
             c == [Sends(call, "intent_poll") EXCEPT !.raised = (h.does = "raise"),
                                                       !.turn = h.does,
                                                       !.pred_url = call.intent_id]
         IN call' = IF h.does = "return" THEN AfterPredicate(c, h.value)
                    ELSE IF call.polls + 1 < max_retries_predicate
                    THEN [c EXCEPT !.polls = @ + 1]
                    ELSE AfterPredicate(c, None)
    /\ UNCHANGED <<engineVars, ntp, session, force>>

\* lines 877-879: add_course_request is called
Confirm ==
    /\ call.at = "confirm"
    /\ \E reply \in TurnReplies, given \in Ids :
         LET got == EnsureTurn(session, reply)
             r == IF got.value = "none" THEN "none" ELSE given
             c == [Sends(call, "confirm") EXCEPT
                     !.add_req_id = r, !.raised = (r = "raise"),
                     !.turn_info = @ + (IF NeedsTurnInfo(session) THEN 1 ELSE 0),
                     !.confirm_id = IF r = "id" THEN ConfirmId ELSE @,
                     !.confirm_payload = IF Posts(got, r)
                                         THEN request_payload(got.session, lesson_id)
                                         ELSE @]
         IN /\ session' = got.session
            /\ call' = IF r = "id" THEN [c EXCEPT !.at = "poll_final"] ELSE Returns(c)
    /\ UNCHANGED <<engineVars, ntp, force>>

\* a mutant of PollConfirm: the confirm poll asks with the id of the intent request
PollConfirmIntentId ==
    /\ call.at = "poll_final"
    /\ \E reply \in FinalReplies :
         LET h == add_drop_poll(reply)
             c == [Sends(call, "confirm_poll") EXCEPT !.raised = (h.does = "raise"),
                                                        !.turn = h.does,
                                                        !.final_url = call.intent_id]
         IN call' = IF h.does = "return"
                    THEN Returns([c EXCEPT !.final = h.value, !.final_data = reply.data])
                    ELSE IF call.polls + 1 < max_retries_add_drop
                    THEN [c EXCEPT !.polls = @ + 1]
                    ELSE Returns([c EXCEPT !.final = None])
    /\ UNCHANGED <<engineVars, ntp, session, force>>

\* a mutant of PollConfirm: the loop makes one turn more than max_retries
PollConfirmOneMore ==
    /\ call.at = "poll_final"
    /\ \E reply \in FinalReplies :
         LET h == add_drop_poll(reply)
             c == [Sends(call, "confirm_poll") EXCEPT !.raised = (h.does = "raise"),
                                                        !.turn = h.does,
                                                        !.final_url = call.confirm_id]
         IN call' = IF h.does = "return"
                    THEN Returns([c EXCEPT !.final = h.value, !.final_data = reply.data])
                    ELSE IF call.polls + 1 <= max_retries_add_drop
                    THEN [c EXCEPT !.polls = @ + 1]
                    ELSE Returns([c EXCEPT !.final = None])
    /\ UNCHANGED <<engineVars, ntp, session, force>>

\* one turn of the loop of get_add_drop_response (lines 633-671) and, when the loop
\* is left, lines 882-889
PollConfirm ==
    /\ call.at = "poll_final"
    /\ \E reply \in FinalReplies :
         LET h == add_drop_poll(reply)
             c == [Sends(call, "confirm_poll") EXCEPT !.raised = (h.does = "raise"),
                                                        !.turn = h.does,
                                                        !.final_url = call.confirm_id]
         IN call' = IF h.does = "return"
                    THEN Returns([c EXCEPT !.final = h.value, !.final_data = reply.data])
                    ELSE IF call.polls + 1 < max_retries_add_drop
                    THEN [c EXCEPT !.polls = @ + 1]
                    ELSE Returns([c EXCEPT !.final = None])
    /\ UNCHANGED <<engineVars, ntp, session, force>>

\* one attempt on its own
InitAttempt ==
    /\ Boot
    /\ concurrency = 1
    /\ lesson_targets = DefaultTargets
    /\ call = FreshCall
    /\ ntp = FreshSync
    /\ force = NotForced
    /\ session \in Sessions

NextAttempt ==
    \/ SubmitIntent
    \/ PollIntent
    \/ Confirm
    \/ PollConfirm

SpecAttempt == InitAttempt /\ [][NextAttempt]_vars

----------------------------------------------------------------------------
(* sync_time_with_ntp, lines 779-813.  Times are whole numbers; the mean is  *)
(* kept as the fraction num / den that line 806 divides out.                 *)

\* range(3), line 792
ntp_samples == 3

\* the values of response.tx_time and of time.time()
RemoteTimes == {20, 21, 23}
LocalTimes == {20, 22}

\* what one request brings
Sample(ok, remote, local) == [ok |-> ok, remote |-> remote, local |-> local]
NtpAnswers ==
    {Sample(FALSE, 0, 0)}
    \cup {Sample(TRUE, r, l) : r \in RemoteTimes, l \in LocalTimes}

\* sum(offsets), line 806
RECURSIVE Sum(_)
Sum(s) == IF s = <<>> THEN 0 ELSE s[1] + Sum(Tail(s))

\* a mutant of Mean: the sum is divided by the number of requests
MeanOfRequests(offsets) == [num |-> Sum(offsets), den |-> ntp_samples]

\* sum(offsets) / len(offsets), line 806
Mean(offsets) == [num |-> Sum(offsets), den |-> Len(offsets)]

\* 0.0, line 813
Zero == [num |-> 0, den |-> 1]

\* a line written to the user interface: the level of the call (self._info,
\* self._success, self._error) and what the line is about
Notice(level, about) == [level |-> level, about |-> about]

\* lines 800 and 803: the line written for one request
SampleNotice(ok) ==
    IF ok THEN Notice("info", "measured") ELSE Notice("error", "sample_failed")

ReturnNoticesSilent(offsets) ==
    IF offsets # <<>>
    THEN <<Notice("success", "synced"), Notice("info", "mean")>>
    ELSE <<>>

\* lines 807-808 and 811-812: the lines written before the value is returned
ReturnNotices(offsets) ==
    IF offsets # <<>>
    THEN <<Notice("success", "synced"), Notice("info", "mean")>>
    ELSE <<Notice("error", "all_failed"), Notice("info", "use_local")>>

\* one turn of the loop of lines 792-803: the request raises and the handler of line
\* 802 logs it, or its offset is appended
NtpSample ==
    /\ ntp.at = "sampling"
    /\ Len(ntp.samples) < ntp_samples
    /\ \E x \in NtpAnswers :
         ntp' = [ntp EXCEPT !.samples = Append(@, x),
                            !.offsets = IF x.ok THEN Append(@, x.remote - x.local) ELSE @,
                            !.log = Append(@, SampleNotice(x.ok))]
    /\ UNCHANGED <<engineVars, call, session, force>>

\* lines 805-813
NtpReturn ==
    /\ ntp.at = "sampling"
    /\ Len(ntp.samples) = ntp_samples
    /\ ntp' = [ntp EXCEPT !.at = "done",
                          !.log = @ \o ReturnNotices(ntp.offsets),
                          !.result = IF ntp.offsets # <<>> THEN Mean(ntp.offsets) ELSE Zero]
    /\ UNCHANGED <<engineVars, call, session, force>>

\* one call of sync_time_with_ntp on its own
InitNtp ==
    /\ Boot
    /\ concurrency = 1
    /\ lesson_targets = DefaultTargets
    /\ call = FreshCall
    /\ ntp = FreshSync
    /\ force = NotForced
    /\ session = Verified

NextNtp ==
    \/ NtpSample
    \/ NtpReturn

SpecNtp == InitNtp /\ [][NextNtp]_vars

----------------------------------------------------------------------------
(* Properties of the scheduling loop *)

\* a step that launches an attempt (line 922)
Launches == launched' = launched + 1

\* attempt a has completed with a result that wins the race
Won(a) ==
    /\ att[a].st \in {"finished", "collected"}
    /\ att[a].res.ok

\* a step in which the result of attempt a is read (line 926)
Reads(a) == att[a].st = "finished" /\ att'[a].st = "collected"

\* C1: in every reachable state the number of attempts that were submitted and
\* have not completed is at most the concurrency argument (so at most one with
\* concurrency 1)
C1_InFlightAtMostConcurrency == Cardinality(InFlight) <= concurrency

\* the pool is full again after a finished attempt was replaced
C1_PoolFullAfterRefill ==
    /\ concurrency = 2
    /\ attempt_counter = 3
    /\ Cardinality(InFlight) = 2

\* C2 as stated: once an attempt of the race has completed with a winning result, no
\* further attempt is launched and the race does not take the exit of its deadline
\* (an interrupt apart, the race returns true)
C2_NoLaunchAfterCompletedWin ==
    [][(\E a \in Attempts : Won(a)) =>
            /\ ~Launches
            /\ exit' # "timeout"]_vars

\* C2 amended: once the scheduler has read a winning result (success is set) it
\* launches nothing more, the only statement of the loop it still executes is the
\* test of line 936, and that test leaves the loop with the return value true unless
\* a KeyboardInterrupt comes first
C2_StopsOnObservedWin ==
    [][/\ success => ~Launches
       /\ success' => pc' \in {"decide", "shutdown"}
       /\ (success /\ pc = "decide" /\ pc' # "decide") =>
              (pc' = "shutdown" /\ exit' \in {"win", "interrupt"})]_vars

\* a race left with the value true while an attempt launched after the winner runs on
C2_WinWithOthersInFlight ==
    /\ exit = "win"
    /\ attempt_counter = 3
    /\ InFlight # {}

\* C3 as stated: the race returns true only for a win observed by the deadline, and
\* (an interrupt apart) never returns false after such an observation
C3_TrueIffWinBeforeDeadline ==
    [][/\ (exit' = "win" /\ exit # "win") => (success /\ won_at = "intime")
       /\ (success /\ won_at = "intime") => exit' # "timeout"]_vars

\* C3 amended: the race returns true only after reading a Success or AlreadyHeld
\* result of one of its attempts, whether the deadline had passed at that moment or
\* not; after such a reading it never takes the deadline exit, and returns false only
\* through the handler of KeyboardInterrupt; main sees true exactly for the exit of
\* line 942
C3_TrueIffWinObserved ==
    [][/\ (exit' = "win" /\ exit # "win") => (success /\ pc = "decide")
       /\ (success' /\ ~success) =>
              \E a \in done : /\ Reads(a)
                              /\ Outcome(att[a].res) \in {"Success", "AlreadyHeld"}
       /\ exit' = "timeout" => ~success
       /\ (success /\ exit' # exit) => exit' \in {"win", "interrupt", "none"}
       /\ (pc = "shutdown" /\ pc' \in {"ask", "refresh"}) =>
              (pc' = "ask" <=> exit = "win")]_vars

\* a race left with the value true on a win that was read after the deadline
C3_LateWinReturnsTrue == exit = "win" /\ won_at = "late"

\* a step by which the main thread passes the test of line 913
ChecksDeadline == pc = "check" /\ pc' # "check" /\ exit' # "interrupt"

\* C4 as stated: when a check finds now >= deadline and no win was observed, the
\* scheduler cancels the attempts still in the pool, launches nothing and returns false
C4_DeadlineCancelsAndReturnsFalse ==
    [][(ChecksDeadline /\ to_deadline <= 0 /\ ~success) =>
            /\ exit' = "timeout"
            /\ ~Launches
            /\ att' = Cancel(futures)]_vars

\* C5 as stated: no attempt is launched at a time later than the deadline, and a race
\* whose deadline has passed at its first check returns false with no attempt launched
C5_NoLaunchAfterDeadline ==
    [][/\ Launches => to_deadline >= 0
       /\ (ChecksDeadline /\ attempt_counter = 0 /\ to_deadline < 0) =>
              (exit' = "timeout" /\ attempt_counter' = 0)]_vars

\* C5 amended: attempts are launched only by the refill of lines 920-922, which is
\* entered only from a check that found now <= deadline (the clock may pass the
\* deadline between that check and the launch); a check that finds now > deadline
\* leaves the loop with the value false, and nothing is launched once the loop is left
C5_LaunchOnlyAfterPassedCheck ==
    [][/\ Launches => pc = "refill"
       /\ (pc' = "refill" /\ pc # "refill") => (pc = "check" /\ to_deadline >= 0)
       /\ (ChecksDeadline /\ to_deadline < 0) =>
              (pc' = "shutdown" /\ exit' = "timeout" /\ ~Launches)
       /\ pc = "shutdown" => ~Launches]_vars

\* the deadline had passed at the first check: the race is left without any attempt
C5_TimedOutBeforeAnyLaunch ==
    /\ pc = "shutdown"
    /\ exit = "timeout"
    /\ attempt_counter = 0

\* the outcome tag attempt a has ended with, "" while it has not ended
Ended(a) ==
    IF att[a].st = "finished" THEN Outcome(att[a].res)
    ELSE IF att[a].st = "collected" THEN att[a].res.kind
    ELSE ""

\* attempts 1 and 2 have ended Transient and the Success of attempt 3 has been read
ThirdAttemptWins ==
    /\ concurrency = 2
    /\ Ended(1) = "Transient"
    /\ Ended(2) = "Transient"
    /\ att[3].st = "collected" /\ Ended(3) = "Success"

\* C6 as stated: with concurrency 2, when attempts 1 and 2 end Transient and attempt 3
\* ends Success, the race returns true with an attempt counter of exactly 3
C6_ThirdWinsCounterIsThree ==
    (ThirdAttemptWins /\ exit = "win") => attempt_counter = 3

\* C6 amended: with concurrency 2, when attempts 1 and 2 end Transient and the Success
\* of attempt 3 is read, the race is left with the value true or by an interrupt, and
\* the attempt counter is at least 3 and at most 2 plus the number of results read
\* without a win (each of which the refill may have replaced before attempt 3 was read)
C6_ThirdWinsCounterAtLeastThree ==
    (ThirdAttemptWins /\ pc = "shutdown") =>
        /\ exit \in {"win", "interrupt"}
        /\ attempt_counter >= 3
        /\ attempt_counter <=
               2 + Cardinality({a \in Attempts : att[a].st = "collected" /\ ~att[a].res.ok})

\* attempts 1 and 2 were read in one round and replaced by attempts 3 and 4
C6_ThirdWinsCounterIsFour ==
    /\ ThirdAttemptWins
    /\ exit = "win"
    /\ attempt_counter = 4

\* fut is a finished attempt whose confirm poll ended on a reply that carries an
\* error text with the marker of a schedule conflict
ConflictReply(fut) ==
    /\ fut.st = "finished"
    /\ fut.final.type = "dict"
    /\ CONFLICT \in _extract_text_field(fut.final.errorMessage)

\* C7 as stated: an attempt whose confirm poll ended on an error text with the conflict
\* marker has the outcome Conflict, and reading its result does not stop the race
C7_ConflictTextIsConflict ==
    [][\A a \in Attempts :
          /\ ConflictReply(att'[a]) => Outcome(att'[a].res) = "Conflict"
          /\ (ConflictReply(att[a]) /\ Reads(a) /\ done = {a}) =>
                 (~success' /\ pc' = "decide")]_vars

\* fut is a finished attempt whose confirm poll ended on a reply without the success
\* flag whose error text carries the conflict marker and no already-held marker
ConflictOnlyReply(fut) ==
    /\ ConflictReply(fut)
    /\ ~fut.final.success
    /\ ~_is_duplicate_message(_extract_text_field(fut.final.errorMessage))

\* C7 amended: an attempt whose confirm poll ended on a reply that has not the success
\* flag and whose error text carries the conflict marker and no already-held marker
\* has the outcome Conflict, and reading its result does not stop the race
C7_ConflictOnlyTextIsConflict ==
    [][\A a \in Attempts :
          /\ ConflictOnlyReply(att'[a]) =>
                 (~att'[a].res.ok /\ Outcome(att'[a].res) = "Conflict")
          /\ (ConflictOnlyReply(att[a]) /\ Reads(a) /\ done = {a}) =>
                 (~success' /\ pc' = "decide")]_vars

\* the first attempt ended on a conflict text, its result was read, and the race
\* launched the next attempt
C7_ConflictThenNextAttempt ==
    /\ concurrency = 1
    /\ att[1].st = "collected" /\ att[1].res.kind = "Conflict"
    /\ att[2].st = "pending"
    /\ to_deadline >= 0

C9_WinningOutcomesAlike ==
    [][/\ \A a \in Attempts :
              (Reads(a) /\ Outcome(att[a].res) \in {"Success", "AlreadyHeld"}) =>
                  /\ success' /\ pc' = "decide"
                  /\ ~Launches
                  /\ futures' = futures /\ attempt_counter' = attempt_counter
       /\ (pc = "collect" /\ pc' = "decide"
              /\ \E a \in done : Outcome(att[a].res) \in {"Success", "AlreadyHeld"}) => success'
       /\ (pc = "decide" /\ pc' # "decide" /\ exit' # "interrupt"
              /\ \E a \in Attempts : att[a].st = "collected"
                                       /\ att[a].res.kind \in {"Success", "AlreadyHeld"}) =>
              (exit' = "win" /\ att' = Cancel(futures) /\ ~Launches)]_vars

\* a race won on an AlreadyHeld outcome
C9_WonOnAlreadyHeld ==
    /\ exit = "win"
    /\ \E a \in Attempts : att[a].st = "collected" /\ att[a].res.kind = "AlreadyHeld"

----------------------------------------------------------------------------
(* Properties of the target loop of main *)

\* C10: when the operator's answer after a race that returned true is not 'y', the
\* run ends there: no race is started for a later target
C10_StopsAtFirstSuccess ==
    [][/\ (pc = "shutdown" /\ pc' \in {"ask", "refresh"} /\ exit = "win") => pc' = "ask"
       /\ (pc = "ask" /\ cont' # "y") => pc' = "end"
       /\ pc = "end" => (pc' = "end" /\ i' = i /\ ~Launches)]_vars

\* of three targets the second was won, the operator stopped and the third was never
\* started
C10_SecondWonThirdNotStarted ==
    /\ pc = "end"
    /\ report = "returned"
    /\ cont = "n"
    /\ i = 2
    /\ NumTargets >= 3

\* entry x goes before entry y: lower rank, or the same rank and configured earlier
GoesBefore(x, y) ==
    \/ x.priority < y.priority
    \/ x.priority = y.priority /\ x.name < y.name

\* C11: races are started one target at a time in ascending order of rank, targets of
\* equal rank in their configured order: the target whose race a step starts goes
\* after every target raced before it
C11_RacesInPriorityOrder ==
    [][i' # i =>
          /\ pc = "loop" /\ pc' = "prewait"
          /\ i' = i + 1
          /\ lesson_targets' = lesson_targets
          /\ \A k \in 1..i : GoesBefore(lesson_targets[k], lesson_targets[i'])]_vars

\* every target was raced, the first raced was not the first configured, and two
\* targets of one rank were raced
C11_ReorderedAllRaced ==
    /\ pc = "end"
    /\ i = NumTargets
    /\ lesson_targets[1].name > 1
    /\ \E j, k \in 1..NumTargets :
          j < k /\ lesson_targets[j].priority = lesson_targets[k].priority

\* C12: a race that returned false is followed by the refresh of the session and then,
\* if a target is left, by the race of the next target of the sorted list; main
\* reports that every target failed only after one race per target, none of which
\* returned true, and in that case reports nothing else (a KeyboardInterrupt apart,
\* which ends the run where it arrives)
C12_FailedRaceThenNextTarget ==
    [][/\ (pc = "shutdown" /\ pc' \notin {"shutdown", "end"} /\ exit # "win") =>
              pc' = "refresh"
       /\ (pc = "refresh" /\ pc' \notin {"refresh", "end"}) => (pc' = "loop" /\ i' = i)
       /\ (pc = "loop" /\ i < NumTargets /\ pc' \notin {"loop", "end"}) =>
              (pc' = "prewait" /\ i' = i + 1 /\ lesson_targets' = lesson_targets)
       /\ i' \in {i, i + 1}
       /\ success_any' = (success_any \/ (pc = "shutdown" /\ pc' = "ask"))
       /\ (report' = "allfailed" /\ report # "allfailed") =>
              (pc = "loop" /\ i = NumTargets /\ ~success_any)
       /\ (pc = "loop" /\ i = NumTargets /\ ~success_any /\ pc' # "loop") =>
              report' \in {"allfailed", "interrupted"}]_vars

\* every target was raced, attempts were launched, the target instant has passed and
\* main reported that all failed
C12_AllRacedAllFailed ==
    /\ pc = "end"
    /\ report = "allfailed"
    /\ i = NumTargets
    /\ to_target < 0
    /\ launched > 0

----------------------------------------------------------------------------
(* Properties of the handling of KeyboardInterrupt *)

\* the main thread is inside the try of line 910
InTry == pc \in {"check", "refill", "wait", "collect", "decide"}

\* C13: a KeyboardInterrupt that arrives while the scheduler runs its loop (the try of
\* line 910) makes it cancel every attempt of its pool (an attempt no worker has
\* taken yet is cancelled and never runs, one that is running is left to end), leave
\* the loop without launching anything, launch nothing afterwards, and hand False to
\* main
C13_InterruptCancelsAndReturnsFalse ==
    [][/\ (InTry /\ exit' = "interrupt") =>
              /\ pc' = "shutdown"
              /\ ~Launches
              /\ \A a \in Attempts :
                    IF a \in futures /\ att[a].st = "pending"
                    THEN att'[a].st = "cancelled"
                    ELSE att'[a] = att[a]
       /\ (pc = "shutdown" /\ exit = "interrupt") =>
              /\ ~Launches
              /\ \A a \in Attempts : att[a].st = "cancelled" => att'[a].st # "running"
              /\ pc' \in {"shutdown", "refresh", "end"}
              /\ pc' = "refresh" => (InFlight = {} /\ success_any' = success_any)]_vars

\* an interrupt found one attempt waiting for a worker and one running
C13_InterruptedQueuedAndRunning ==
    /\ pc = "shutdown"
    /\ exit = "interrupt"
    /\ \E a, b \in Attempts : att[a].st = "cancelled" /\ att[b].st = "running"

\* C14 as stated: a race that a KeyboardInterrupt made leave its loop does not return
\* to main as a failed race: the run ends there, and no later target is raced
C14_InterruptEndsRun ==
    [][(pc = "shutdown" /\ exit = "interrupt" /\ pc' # "shutdown") => pc' = "end"]_vars

----------------------------------------------------------------------------
(* Properties of one attempt *)

\* the orders in which one attempt can have called the client
StageOrders ==
    {<<>>, <<"intent">>, <<"intent", "intent_poll">>,
     <<"intent", "intent_poll", "confirm">>,
     <<"intent", "intent_poll", "confirm", "confirm_poll">>}

\* the attempt has made the call `what`
Sent(what) == \E k \in 1..Len(call.sent) : call.sent[k] = what

\* C15: the calls of one attempt are made in the order intent request, intent poll,
\* confirm request, confirm poll; the intent is polled only after the intent request
\* gave an id, the confirm request is made only after that and after the intent poll
\* returned a result with the success flag, and the confirm is polled only after the
\* confirm request gave an id; neither poll makes more turns than its max_retries
C15_StagesInOrder ==
    /\ call.sent \in StageOrders
    /\ Sent("intent_poll") => call.req_id = "id"
    /\ Sent("confirm") =>
          (call.req_id = "id" /\ call.pred.type = "dict" /\ call.pred.success)
    /\ Sent("confirm_poll") => call.add_req_id = "id"
    /\ call.at = "poll_pred" => call.polls < max_retries_predicate
    /\ call.at = "poll_final" => call.polls < max_retries_add_drop

\* an attempt went through its four stages and ended with a Success
C15_AllStagesThenSuccess ==
    /\ call.at = "done"
    /\ call.sent = <<"intent", "intent_poll", "confirm", "confirm_poll">>
    /\ call.res = Result(TRUE, "Success")

\* a value of the result map of pred carries an already-held marker
HeldInMap(pred) ==
    /\ pred.result.type = "map"
    /\ \E v \in pred.result.values : v.type = "dict" /\ _is_duplicate_message(v.text)

\* the error text of a precheck result that has not the success flag
FailedText(pred) ==
    IF pred.success THEN {} ELSE _extract_text_field(pred.errorMessage)

\* C16 as stated: an attempt whose intent poll returned a result with an already-held
\* marker in its error text or in its result map ends as a win without a confirm
\* request, and one whose intent poll returned a conflict text (and no such marker)
\* ends without a win and without a confirm request
C16_PrecheckShortCircuits ==
    (call.at = "done" /\ call.pred.type = "dict") =>
        /\ (_is_duplicate_message(FailedText(call.pred)) \/ HeldInMap(call.pred)) =>
               (Outcome(call.res) = "AlreadyHeld" /\ ~Sent("confirm"))
        /\ (CONFLICT \in FailedText(call.pred)
               /\ ~_is_duplicate_message(FailedText(call.pred))
               /\ ~HeldInMap(call.pred)) =>
               (~call.res.ok /\ ~Sent("confirm"))

\* the pairs (ok, msg) of the return statements of _single_attempt, by the last call
\* made before them
ResultsAfter(what) ==
    IF what = "intent"
    THEN {Result(FALSE, "Exception"), Result(FALSE, "NoRequestId")}
    ELSE IF what = "intent_poll"
    THEN {Result(TRUE, "DupPrecheck"), Result(FALSE, "PrecheckFail"),
          Result(TRUE, "DupPrecheckResult"), Result(FALSE, "Exception")}
    ELSE IF what = "confirm"
    THEN {Result(FALSE, "Exception"), Result(FALSE, "NoAddRequestId")}
    ELSE {Result(TRUE, "Success"), Result(FALSE, "Conflict"), Result(TRUE, "DupAddDrop"),
          Result(FALSE, "FinalFail")}

FinalText ==
    IF call.final_data.type = "dict" /\ ~call.final_data.success
    THEN _extract_text_field(call.final_data.errorMessage)
    ELSE {}

\* C18 as stated: an attempt that got a terminal answer with an already-held marker -
\* in the error text of its intent result, in the result map of its intent result or
\* in the error text of its confirm result, with or without the conflict marker in the
\* same text - ends as a win on that answer
C18_MarkerAlwaysWins ==
    call.at = "done" =>
        /\ (call.pred.type = "dict"
               /\ (_is_duplicate_message(FailedText(call.pred)) \/ HeldInMap(call.pred))) =>
               (call.res.ok /\ ~Sent("confirm"))
        /\ _is_duplicate_message(FinalText) => call.res.ok

\* C19: a step of an attempt that runs into an exception never leaves the attempt
\* without a result.  An exception of add_course_predicate or add_course_request, or of
\* reading the result map, ends the attempt with (False, exception message); an
\* exception in a turn of a polling loop (the request, or the handling of its reply)
\* is caught by the loop, which polls again, or after its last turn gives no result,
\* and the attempt ends with (False, precheck failed / final failed).  Each of these
\* ends is a non-winning Transient outcome.
C19_ExceptionsBecomeTransient ==
    [][call'.raised =>
          /\ call.at \in {"submit", "confirm"} =>
                (call'.at = "done" /\ call'.res = Result(FALSE, "Exception"))
          /\ call.at = "poll_pred" =>
                \/ /\ call'.at = "poll_pred"
                   /\ call'.polls = call.polls + 1
                   /\ call'.polls < max_retries_predicate
                \/ /\ call'.at = "done"
                   /\ call.polls + 1 = max_retries_predicate
                   /\ call'.pred = None
                   /\ call'.res = Result(FALSE, "PrecheckFail")
                \/ /\ call'.at = "done"
                   /\ call'.pred.type = "dict" /\ call'.pred.result.type = "notmap"
                   /\ call'.res = Result(FALSE, "Exception")
          /\ call.at = "poll_final" =>
                \/ /\ call'.at = "poll_final"
                   /\ call'.polls = call.polls + 1
                   /\ call'.polls < max_retries_add_drop
                \/ /\ call'.at = "done"
                   /\ call.polls + 1 = max_retries_add_drop
                   /\ call'.final = None
                   /\ call'.res = Result(FALSE, "FinalFail")
          /\ call'.at = "done" =>
                (~call'.res.ok /\ Outcome(call'.res) = "Transient")]_vars

\* add_course_request raised after a precheck that passed
C19_ConfirmRaised ==
    /\ call.at = "done"
    /\ call.raised
    /\ call.add_req_id = "raise"
    /\ call.res = Result(FALSE, "Exception")

----------------------------------------------------------------------------
(* Properties of sync_time_with_ntp *)

\* the requests of the call that brought an answer
Answered == {k \in 1..Len(ntp.samples) : ntp.samples[k].ok}

\* remote - local summed over the first k requests that brought an answer
RECURSIVE AnsweredSum(_)
AnsweredSum(k) ==
    IF k = 0 THEN 0
    ELSE AnsweredSum(k - 1)
           + (IF ntp.samples[k].ok THEN ntp.samples[k].remote - ntp.samples[k].local
              ELSE 0)

\* C20: sync_time_with_ntp returns only after three requests, whether they failed or
\* not; if at least one brought an answer the value returned is the sum of
\* tx_time - time.time() over the requests that did, divided by their number, and it
\* is 0.0 if none did
C20_MeanOfSuccessfulSamples ==
    /\ Len(ntp.samples) <= ntp_samples
    /\ Len(ntp.offsets) = Cardinality(Answered)
    /\ ntp.at = "done" =>
          /\ Len(ntp.samples) = ntp_samples
          /\ Answered # {} =>
                ntp.result = [num |-> AnsweredSum(ntp_samples), den |-> Cardinality(Answered)]
          /\ Answered = {} => ntp.result = Zero

\* the first request failed, the other two brought offsets whose mean is no whole
\* number
C20_MeanOfTwoOfThree ==
    /\ ntp.at = "done"
    /\ ~ntp.samples[1].ok
    /\ ntp.result.den = 2
    /\ ntp.result.num % 2 = 1

\* the lines written to the user interface by the call so far
Logged == {ntp.log[k] : k \in 1..Len(ntp.log)}

\* C21: when none of the three requests brought an answer, sync_time_with_ntp
\* returns normally (the failures are caught one by one, nothing is raised), the
\* value returned is 0.0, and before returning it tells the user that every
\* attempt failed and that the local time will be used; that notice is never
\* written when some request brought an answer
C21_AllFailedZeroAndNotice ==
    /\ (ntp.at = "sampling" /\ Len(ntp.samples) = ntp_samples /\ Answered = {})
          => ENABLED NtpReturn
    /\ ntp.at = "done" =>
          /\ Answered = {} =>
                /\ ntp.result = Zero
                /\ Notice("error", "all_failed") \in Logged
                /\ Notice("info", "use_local") \in Logged
                /\ ntp.log[Len(ntp.log)] = Notice("info", "use_local")
          /\ Answered # {} => Notice("error", "all_failed") \notin Logged

\* three requests failed and the call has returned
C21_ThreeFailuresReturned ==
    /\ ntp.at = "done"
    /\ Len(ntp.samples) = ntp_samples
    /\ \A k \in 1..ntp_samples : ~ntp.samples[k].ok
    /\ ntp.result = Zero

\* C22: once the scheduler has left its loop (return True of line 942, return False
\* of line 917 or of line 948) the attempts still in the pool run to their end while
\* the with block waits, and their results are never read: the value handed to main
\* is the one decided when the loop was left, the attempt counter and the success
\* flag keep their values, and nothing is launched
C22_LateResultsDiscarded ==
    [][pc = "shutdown" =>
          /\ ~Launches
          /\ \A a \in Attempts : ~Reads(a)
          /\ pc' = "shutdown" =>
                /\ exit' = exit
                /\ attempt_counter' = attempt_counter
                /\ success' = success
                /\ futures' = futures
          /\ pc' \in {"ask", "refresh"} =>
                /\ InFlight = {}
                /\ pc' = (IF exit = "win" THEN "ask" ELSE "refresh")
                /\ success_any' = (success_any \/ exit = "win")]_vars

\* the deadline ended the race, and an attempt that was still in the pool has since
\* ended with a result that would have won
C22_LateWinAfterDeadline ==
    /\ pc = "shutdown"
    /\ exit = "timeout"
    /\ InFlight = {}
    /\ \E a \in Attempts : att[a].st = "finished" /\ att[a].res.ok

\* C23: with the times read on the corrected clock (time.time() + time_offset), a
\* race launches no attempt while the target instant is more than 5 seconds ahead,
\* and its wait for start_time (lines 838-852) ends without the clock advancing
\* exactly when the target instant is at most 5 seconds ahead at the call, be it
\* still ahead or already past: the launching starts at the later of the instant of
\* the call and the target instant minus 5 seconds
C23_LaunchFromLeadIn ==
    [][/\ Launches => to_target <= LeadIn
       /\ (pc = "loop" /\ pc' = "prewait") =>
              /\ Started' <=> (to_target <= LeadIn)
              /\ ~Started' => to_start' = to_target - LeadIn
       /\ (pc = "prewait" /\ pc' = "check") => Started]_vars

\* the first race was called between 5 seconds before the target instant and the
\* target instant, and its first attempt is in the pool before the target instant
C23_CalledInsideLeadIn ==
    /\ i = 1
    /\ pc = "wait"
    /\ attempt_counter = 1
    /\ to_target \in 1..(LeadIn - 1)

\* the call of rapid_select_course is under way
InRace == pc \in {"prewait", "check", "refill", "wait", "collect", "decide", "shutdown"}

\* C24: whenever rapid_select_course derives its window (lines 822-831), whatever
\* the distance between the corrected clock and the target instant, start_time is
\* not after deadline; and while the call is under way start_time, deadline and
\* concurrency are never assigned again: the distance from the clock to the deadline
\* changes only because the clock advances, and the wait for start_time ends once
C24_WindowOrderedAndFixed ==
    [][/\ (pc = "loop" /\ pc' = "prewait") =>
              /\ to_start' <= to_deadline'
              /\ to_deadline' >= max_duration
       /\ (InRace /\ InRace') =>
              /\ concurrency' = concurrency
              /\ to_deadline' # to_deadline =>
                    /\ to_deadline' < to_deadline
                    /\ UNCHANGED <<pc, loopVars, att, launched, exit>>
              /\ (pc = "prewait" /\ pc' = "prewait" /\ to_start' # to_start) =>
                    /\ to_start' < to_start
                    /\ to_deadline - to_deadline' = to_start - to_start'
              /\ pc # "prewait" => pc' # "prewait"]_vars

\* a race is running at the very instant of its deadline, which was derived when the
\* call came and the clock has since reached
C24_RunningAtDeadline ==
    /\ pc = "wait"
    /\ futures # {}
    /\ to_deadline = 0

----------------------------------------------------------------------------
(* Bounds of the polling loops *)

\* the polling loop the call is in makes a turn that leaves it without a result
NotReady == call'.turn \in {"continue", "raise"}

\* C25: get_predicate_response makes at most 8 requests and get_add_drop_response at
\* most 10 in an attempt of a race; a turn that brings no result is followed by
\* another turn unless it was the last one, and after the last one the polling stops,
\* the poll returns None and the attempt ends with (False, precheck failed / final
\* failed, no result): a Transient outcome, never a win
C25_PollsBoundedThenTransient ==
    [][/\ (call.at = "poll_pred" /\ call' # call) =>
              /\ call.polls < max_retries_predicate
              /\ call'.at = "poll_pred" => (NotReady /\ call'.polls = call.polls + 1)
              /\ (NotReady /\ call.polls + 1 < max_retries_predicate) =>
                    call'.at = "poll_pred"
              /\ (NotReady /\ call.polls + 1 = max_retries_predicate) =>
                    /\ call'.at = "done"
                    /\ call'.pred = None
                    /\ call'.sent = <<"intent", "intent_poll">>
                    /\ call'.res = Result(FALSE, "PrecheckFail")
                    /\ Outcome(call'.res) = "Transient"
       /\ (call.at = "poll_final" /\ call' # call) =>
              /\ call.polls < max_retries_add_drop
              /\ call'.at = "poll_final" => (NotReady /\ call'.polls = call.polls + 1)
              /\ (NotReady /\ call.polls + 1 < max_retries_add_drop) =>
                    call'.at = "poll_final"
              /\ (NotReady /\ call.polls + 1 = max_retries_add_drop) =>
                    /\ call'.at = "done"
                    /\ call'.final = None
                    /\ call'.res = Result(FALSE, "FinalFail")
                    /\ Outcome(call'.res) = "Transient"]_vars

\* the tenth turn of the confirm poll found the result not ready, and the attempt has
\* ended
C25_ConfirmPollExhausted ==
    /\ call.at = "done"
    /\ call.sent = <<"intent", "intent_poll", "confirm", "confirm_poll">>
    /\ call.turn = "continue"
    /\ call.final = None
    /\ ~call.res.ok

----------------------------------------------------------------------------
(* The requests of an attempt *)

\* the kinds of request the call has made so far
Requested ==
    {call.sent[k] : k \in 1..Len(call.sent)}
    \cup (IF call.turn_info > 0 THEN {"turn_info"} ELSE {})

\* C26 as stated: an attempt makes no request but one submit-intent, at most 8
\* intent polls, one confirm and at most 10 confirm polls, every one of them with a
\* timeout, and so it always reaches its one return statement: as long as it has not
\* returned it has a next step, and once it has returned it has none
C26_BoundedCallsWithTimeouts ==
    /\ \A what \in Requested : HasTimeout(what)
    /\ call.turn_info = 0
    /\ call.sent \in StageOrders
    /\ call.at = "poll_pred" => call.polls < max_retries_predicate
    /\ call.at = "poll_final" => call.polls < max_retries_add_drop
    /\ call.at # "done" <=> ENABLED NextAttempt

\* the values carried by the body of a post, but for its lesson number
Carried(payload) == {payload[f] : f \in DOMAIN payload \ {"lessonAssoc"}}

\* C27 as stated: the body of the confirm request of an attempt holds the request id
\* its add_course_predicate returned
C27_ConfirmCarriesIntentId ==
    call.confirm_payload # Unreached => call.intent_id \in Carried(call.confirm_payload)

\* C27: the body of the confirm request of an attempt does not hold the request id
\* its add_course_predicate returned (that id is used in the address of the
\* attempt's intent poll only); it names the student and the lesson that the body
\* of the attempt's intent request named, and it is sent only after that intent
\* request brought an id
C27_ConfirmNamesSameLesson ==
    /\ call.pred_url \in {"unset", call.intent_id}
    /\ call.confirm_payload # Unreached =>
          /\ call.intent_id = IntentId
          /\ call.pred_url = call.intent_id
          /\ call.intent_id \notin Carried(call.confirm_payload)
          /\ call.intent_payload # Unreached
          /\ call.confirm_payload.lessonAssoc = call.intent_payload.lessonAssoc
          /\ call.confirm_payload.studentAssoc = call.intent_payload.studentAssoc
          /\ DOMAIN call.confirm_payload = DOMAIN call.intent_payload

\* the confirm request of an attempt has been sent and brought an id
C27_ConfirmSent ==
    /\ call.at = "poll_final"
    /\ call.confirm_payload # Unreached
    /\ call.intent_id = IntentId
    /\ call.confirm_id = ConfirmId

----------------------------------------------------------------------------
(* The session during a race *)

\* C29 as stated: turn_id and semester_id of the client change only in the refresh
\* main makes between two races (line 1423), when no attempt is in the pool; no
\* step taken while a race is under way changes them
C29_SessionChangesOnlyInRefresh ==
    [][session' # session => (pc = "refresh" /\ InFlight = {})]_vars

----------------------------------------------------------------------------
(* The clock offset across the races *)

\* C30 as stated: main never comes to the call of a race (line 1408) but from a
\* synchronization of its own: each race has its sync_time_with_ntp before it
C30_EveryRaceAfterOwnSync ==
    [][(pc' = "loop" /\ pc # "loop" /\ i' < NumTargets) => pc = "sync"]_vars

\* C30: the clock offset is computed once per run: main calls sync_time_with_ntp
\* once (line 1372), before the race of the first target; it comes to the race of
\* every later target from the end of the one before, with no synchronization in
\* between; and time_offset, assigned by that one call only, is the offset of every
\* race and stays as it is while a race is under way
C30_OneSyncPerRun ==
    [][/\ time_offset' # time_offset => (pc = "sync" /\ i = 0 /\ launched = 0)
       /\ (pc' = "loop" /\ pc # "loop") =>
              IF i = 0 THEN pc = "sync" ELSE pc \in {"ask", "refresh"}
       /\ (pc' = "prewait" /\ pc # "prewait") =>
              (pc = "loop" /\ time_offset' = SyncResult)
       /\ InRace => (time_offset = SyncResult /\ time_offset' = time_offset)]_vars

\* the race of the second target is under way with the offset of the one
\* synchronization
C30_SecondRaceSameOffset ==
    /\ i = 2
    /\ pc = "wait"
    /\ futures # {}
    /\ time_offset = SyncResult

----------------------------------------------------------------------------
(* The attempts of a race that was lost *)

\* C31 as stated: when the scheduler has left its loop with return False (the
\* deadline of line 913 or the interrupt of line 943), no attempt of the race has
\* ended, or ends while the executor is shut down, with a result that wins
\* (success, or already held)
C31_LostRaceHasNoWinner ==
    (pc = "shutdown" /\ exit \in {"timeout", "interrupt"}) =>
        \A a \in Attempts : ~Won(a)

\* C32: rapid_select_course hands its value to main (line 1408) only when no attempt
\* of its pool is waiting for a worker or running; so whenever main is outside a
\* call of rapid_select_course no attempt is in flight: none when the race of the
\* next target is called, and none while main refreshes the session (line 1423) or
\* asks whether to go on (line 1414)
C32_NothingInFlightOutsideRace ==
    [][/\ (pc = "shutdown" /\ pc' \in {"ask", "refresh"}) => InFlight = {}
       /\ pc \in {"loop", "ask", "refresh"} => InFlight = {}
       /\ (pc = "loop" /\ pc' = "prewait") =>
              \A a \in Attempts : att'[a].st = "idle"]_vars

\* the race of the second target has handed False to main after launching attempts
C32_SecondRaceReturned ==
    /\ pc = "refresh"
    /\ i = 2
    /\ launched >= 2
    /\ ~success_any

----------------------------------------------------------------------------
(* force_send_requests pass by pass *)

forceRest == <<engineVars, call, ntp, session>>

\* line 713: the for loop takes its next value
ForceBegin ==
    /\ force.at = "loop"
    /\ force.i < force.attempts
    /\ force' = [force EXCEPT !.at = "pass", !.i = @ + 1]
    /\ UNCHANGED forceRest

\* lines 714-758: the body of the loop on what the server answers
ForceEnd ==
    /\ force.at = "pass"
    /\ \E x \in ForceInputs :
          LET result == predicate_poll(x.pred_reply).value
              final == add_drop_poll(x.final_reply).value
              does == force_pass(x.req_id, result, x.add_req_id, final)
              outcome == Outcome(_single_attempt(x.req_id, result, x.add_req_id, final))
          IN force' = [force EXCEPT
                 !.ended = Append(@, [outcome |-> outcome, does |-> does]),
                 !.at = IF does = "continue" THEN "loop" ELSE "done",
                 !.ret = IF does = "return" THEN "True"
                         ELSE IF does = "raise" THEN "raise" ELSE @]
    /\ UNCHANGED forceRest

\* lines 759-761: the loop is exhausted
ForceReturn ==
    /\ force.at = "loop"
    /\ force.i >= force.attempts
    /\ force' = [force EXCEPT !.at = "done", !.ret = "False"]
    /\ UNCHANGED forceRest

NextForce == ForceBegin \/ ForceEnd \/ ForceReturn

\* a call of force_send_requests with any number of attempts the operator may type
InitForce ==
    /\ Boot
    /\ concurrency = 1
    /\ lesson_targets = DefaultTargets
    /\ call = FreshCall
    /\ ntp = FreshSync
    /\ session = Verified
    /\ force \in {FreshForce(n) : n \in 0..MaxPasses}

SpecForce == InitForce /\ [][NextForce]_vars

\* the workflow of pass k ended in Success or AlreadyHeld
PassWon(k) == force.ended[k].outcome \in {"Success", "AlreadyHeld"}

\* C35: the passes are made one at a time and there are at most `attempts` of
\* them; a pass whose workflow ends in Success or AlreadyHeld is the last one and
\* the call returns True with it; and the call returns False only when all
\* `attempts` passes have ended and none of them was won
C35_TrueAtFirstWinFalseAfterAll ==
    LET n == Len(force.ended) IN
    /\ force.i <= force.attempts
    /\ n = IF force.at = "pass" THEN force.i - 1 ELSE force.i
    /\ \A k \in 1..n : PassWon(k) => (k = n /\ force.ret = "True" /\ force.at = "done")
    /\ force.ret = "True" => (n > 0 /\ PassWon(n))
    /\ force.ret = "False" => (n = force.attempts /\ \A k \in 1..n : ~PassWon(k))

----------------------------------------------------------------------------
(* Termination of a race *)

\* the launch budget of the model is used up while the race wants one more attempt
BudgetSpent == pc = "refill" /\ HasFreeSlot /\ launched = MaxAttempts

\* C33: a call of rapid_select_course comes to an end whatever its attempts bring:
\* the wait for start_time ends when the clock reaches it, the loop is left on a win
\* or when the clock has passed the deadline, and the with block is left when the
\* attempts still in the pool have ended; main then has the value True or False
\* (or, after a KeyboardInterrupt outside the try of line 910, has ended)
C33_RaceEnds == InRace ~> (~InRace \/ BudgetSpent)

\* the deadline ended a race whose attempts have all ended: the call is about to
\* hand False to main
C33_DeadlineThenDrained ==
    /\ pc = "shutdown"
    /\ exit = "timeout"
    /\ InFlight = {}
    /\ attempt_counter > 0

----------------------------------------------------------------------------
(* Attempt numbers *)

\* the attempts of the current race that were handed to the pool
Submitted == {a \in Attempts : att[a].st # "idle"}

\* C34: while a race is under way the attempts it has submitted are those numbered
\* 1 to attempt_counter, one attempt per number, so the counter is the number of
\* attempts launched and no number is missing or used twice; the attempts the
\* scheduler still holds are among them
C34_NumbersAreOneToCounter ==
    InRace =>
        /\ Submitted = 1..attempt_counter
        /\ Cardinality(Submitted) = attempt_counter
        /\ futures \subseteq 1..attempt_counter

\* a race with two attempts at a time has launched its third attempt while an
\* earlier one is still in the pool
C34_ThirdLaunchedBesideEarlier ==
    /\ pc = "refill"
    /\ concurrency = 2
    /\ attempt_counter = 3
    /\ att[3].st = "pending"
    /\ \E a \in {1, 2} : att[a].st = "running"
    /\ \E a \in {1, 2} : att[a].st = "collected"

====
